---- MODULE Spec2Model ----
(***************************************************************************)
(* US Chess Rating Tracker (src/rating_tracker.py): one run of main().     *)
(* The run issues one HTTP GET, decodes the JSON body, and prints either a *)
(* message or a summary followed by a table of one row per section.        *)
(*                                                                         *)
(* Python values are tagged records; a dict is a function whose DOMAIN is  *)
(* the set of keys that are present, so an omitted key and a key holding   *)
(* null are different inputs.  A str is a sequence of one-character        *)
(* strings, so slicing, parsing and formatting are computed, not assumed.  *)
(***************************************************************************)
EXTENDS Integers, Sequences, FiniteSets, TLC

VARIABLES
    pc,             \* position of the run inside main / display_sections
    response,       \* what the remote end answers to the GET
    data,           \* main's local: result of fetch_member_sections
    nreq,           \* number of HTTP requests issued
    out,            \* everything printed so far, in order
    exc,            \* exception propagated out of main ("" when none)
    sections,       \* display_sections' local: data['items']
    idx,            \* 1-based position of the for loop over sections
    table_data,     \* rows appended so far
    current_rating, \* display_sections' local
    rating_before,  \* loop body local
    rating_after,   \* loop body local
    change          \* loop body local

vars == <<pc, response, data, nreq, out, exc, sections, idx, table_data,
          current_rating, rating_before, rating_after, change>>

----------------------------------------------------------------------------
(* Bounds of the input space. *)

MaxSections == 2    \* longest items list beyond the single-section ones
MaxRecords == 2     \* longest ratingRecords list
MaxNameLen == 32    \* longest event name

(* Display widths of the Tournament and Section columns. *)
EVENT_NAME_WIDTH == 30
SECTION_NAME_WIDTH == 20

----------------------------------------------------------------------------
(* Python values. *)

PyNone == [t |-> "None"]
PyInt(n) == [t |-> "int", i |-> n]
PyStr(s) == [t |-> "str", s |-> s]
PyList(l) == [t |-> "list", l |-> l]
PyDict(d) == [t |-> "dict", d |-> d]

EmptyDict == [k \in {} |-> PyNone]

\* bool(v): None, 0, "", [] and {} are false.
Truthy(v) ==
    CASE v.t = "None" -> FALSE
      [] v.t = "int" -> v.i # 0
      [] v.t = "str" -> v.s # <<>>
      [] v.t = "list" -> v.l # <<>>
      [] v.t = "dict" -> DOMAIN v.d # {}

\* a or b
PyOr(a, b) == IF Truthy(a) THEN a ELSE b

\* d.get(k, default) on a dict value d.
Get(d, k, default) == IF k \in DOMAIN d.d THEN d.d[k] ELSE default

\* Variant: the slice stops one character early.
Slice_short(s, n) ==
    PyStr(SubSeq(s.s, 1, IF Len(s.s) < n - 1 THEN Len(s.s) ELSE n - 1))

\* s[:n] on a str, n >= 0.
Slice(s, n) == PyStr(SubSeq(s.s, 1, IF Len(s.s) < n THEN Len(s.s) ELSE n))

----------------------------------------------------------------------------
(* Text. *)

Digits == <<"0", "1", "2", "3", "4", "5", "6", "7", "8", "9">>

IsDigit(c) == \E k \in 1..10 : Digits[k] = c

DigitVal(c) == (CHOOSE k \in 1..10 : Digits[k] = c) - 1

\* str(n) for n >= 0
RECURSIVE NatToStr(_)
NatToStr(n) ==
    IF n < 10 THEN <<Digits[n + 1]>>
    ELSE NatToStr(n \div 10) \o <<Digits[(n % 10) + 1]>>

\* str(n)
IntToStr(n) == IF n < 0 THEN <<"-">> \o NatToStr(-n) ELSE NatToStr(n)

\* int(s) for a sequence of digits
RECURSIVE DigitsToNat(_)
DigitsToNat(s) ==
    IF s = <<>> THEN 0
    ELSE 10 * DigitsToNat(SubSeq(s, 1, Len(s) - 1)) + DigitVal(s[Len(s)])

AllDigits(s) == \A k \in 1..Len(s) : IsDigit(s[k])

NA == PyStr(<<"N", "/", "A">>)
Pending == PyStr(<<"P", "e", "n", "d", "i", "n", "g">>)
Regular == PyStr(<<"R">>)
Empty == PyStr(<<>>)

----------------------------------------------------------------------------
(* calculate_rating_change *)

\* Variant: a zero difference takes the positive branch.
calculate_rating_change_zero_plus(before, after) ==
    IF after = PyNone \/ before = PyNone THEN Pending
    ELSE LET diff == after.i - before.i IN
         IF diff >= 0 THEN PyStr(<<"+">> \o IntToStr(diff))
         ELSE PyStr(IntToStr(diff))

\* Variant: the operands of the subtraction are exchanged.
calculate_rating_change_swapped(before, after) ==
    IF after = PyNone \/ before = PyNone THEN Pending
    ELSE LET diff == before.i - after.i IN
         IF diff > 0 THEN PyStr(<<"+">> \o IntToStr(diff))
         ELSE IF diff < 0 THEN PyStr(IntToStr(diff))
         ELSE PyStr(<<"0">>)

calculate_rating_change(before, after) ==
    IF after = PyNone \/ before = PyNone THEN Pending
    ELSE LET diff == after.i - before.i IN
         IF diff > 0 THEN PyStr(<<"+">> \o IntToStr(diff))
         ELSE IF diff < 0 THEN PyStr(IntToStr(diff))
         ELSE PyStr(<<"0">>)

----------------------------------------------------------------------------
(* format_date: datetime.fromisoformat and strftime("%Y-%m-%d").            *)
(* fromisoformat follows the grammar every CPython since 3.7 accepts:      *)
(*   YYYY-MM-DD[*HH[:MM[:SS[.fff[fff]]]][+HH:MM[:SS[.ffffff]]]]            *)

\* str.replace('Z', '+00:00')
RECURSIVE ReplaceZ(_)
ReplaceZ(s) ==
    IF s = <<>> THEN <<>>
    ELSE (IF Head(s) = "Z" THEN <<"+", "0", "0", ":", "0", "0">> ELSE <<Head(s)>>)
         \o ReplaceZ(Tail(s))

IsLeap(y) == (y % 4 = 0) /\ ((y % 100 # 0) \/ (y % 400 = 0))

DaysInMonth(y, m) ==
    IF m = 2 THEN (IF IsLeap(y) THEN 29 ELSE 28)
    ELSE IF m \in {4, 6, 9, 11} THEN 30 ELSE 31

\* Two digits at s[p], s[p+1] whose value is at most max.
TwoDigits(s, p, max) ==
    /\ Len(s) >= p + 1
    /\ IsDigit(s[p]) /\ IsDigit(s[p + 1])
    /\ DigitsToNat(SubSeq(s, p, p + 1)) <= max

\* HH[:MM[:SS[.fff[fff]]]] with fields bounded by hmax, 59, 59.
HmsOK(s, hmax) ==
    /\ Len(s) \in {2, 5, 8, 12, 15}
    /\ TwoDigits(s, 1, hmax)
    /\ Len(s) >= 5 => (s[3] = ":" /\ TwoDigits(s, 4, 59))
    /\ Len(s) >= 8 => (s[6] = ":" /\ TwoDigits(s, 7, 59))
    /\ Len(s) > 8 => (s[9] = "." /\ AllDigits(SubSeq(s, 10, Len(s))))

\* Position of the first '+' or '-' of s, 0 when there is none.
SignPos(s) ==
    IF \E k \in 1..Len(s) : s[k] \in {"+", "-"}
    THEN CHOOSE k \in 1..Len(s) :
            /\ s[k] \in {"+", "-"}
            /\ \A j \in 1..(k - 1) : s[j] \notin {"+", "-"}
    ELSE 0

\* The part after the separator: a time of day and an optional UTC offset.
TimeOK(s) ==
    LET p == SignPos(s) IN
    IF p = 0 THEN HmsOK(s, 23)
    ELSE /\ HmsOK(SubSeq(s, 1, p - 1), 23)
         /\ Len(s) - p \in {5, 8, 15}
         /\ HmsOK(SubSeq(s, p + 1, Len(s)), 23)

\* datetime.fromisoformat(s): [ok, year, month, day]; ok = FALSE is ValueError.
FromIsoFormat(s) ==
    LET bad == [ok |-> FALSE, year |-> 0, month |-> 0, day |-> 0] IN
    IF /\ Len(s) >= 10
       /\ AllDigits(SubSeq(s, 1, 4)) /\ s[5] = "-"
       /\ AllDigits(SubSeq(s, 6, 7)) /\ s[8] = "-"
       /\ AllDigits(SubSeq(s, 9, 10))
    THEN LET y == DigitsToNat(SubSeq(s, 1, 4))
             m == DigitsToNat(SubSeq(s, 6, 7))
             d == DigitsToNat(SubSeq(s, 9, 10))
         IN IF /\ y >= 1 /\ m \in 1..12 /\ d \in 1..DaysInMonth(y, m)
               /\ (Len(s) > 10 => TimeOK(SubSeq(s, 12, Len(s))))
            THEN [ok |-> TRUE, year |-> y, month |-> m, day |-> d]
            ELSE bad
    ELSE bad

\* Zero-padded decimal of n in at least w characters.
RECURSIVE ZeroPad(_, _)
ZeroPad(s, w) == IF Len(s) >= w THEN s ELSE ZeroPad(<<"0">> \o s, w)

\* date.strftime("%Y-%m-%d")
StrfYmd(date) ==
    ZeroPad(NatToStr(date.year), 4) \o <<"-">> \o ZeroPad(NatToStr(date.month), 2)
        \o <<"-">> \o ZeroPad(NatToStr(date.day), 2)

format_date(date_string) ==
    IF ~Truthy(date_string) THEN NA
    ELSE IF date_string.t # "str" THEN date_string   \* .replace raises, caught
    ELSE LET date == FromIsoFormat(ReplaceZ(date_string.s)) IN
         IF date.ok THEN PyStr(StrfYmd(date)) ELSE date_string

----------------------------------------------------------------------------
(* display_sections: the summary value and one row of the table. *)

Headers == <<"Date", "Tournament", "Section", "Type", "Before", "After", "Change">>

\* Lines 75-80: the rating shown in the summary.
CurrentRating(items) ==
    LET latest == items.l[1]
        rating_records == Get(latest, "ratingRecords", PyList(<<>>))
    IN IF Truthy(rating_records)
       THEN PyOr(PyOr(Get(rating_records.l[1], "postRating", PyNone),
                      Get(rating_records.l[1], "preRating", PyNone)),
                 NA)
       ELSE NA

\* Lines 104-111: the loop body's rating locals.
RatingBefore(section) ==
    LET rating_records == Get(section, "ratingRecords", PyList(<<>>)) IN
    IF Truthy(rating_records)
    THEN Get(rating_records.l[1], "preRating", PyNone) ELSE PyNone

RatingAfter(section) ==
    LET rating_records == Get(section, "ratingRecords", PyList(<<>>)) IN
    IF Truthy(rating_records)
    THEN Get(rating_records.l[1], "postRating", PyNone) ELSE PyNone

RatingType(section) == Get(section, "ratingSystem", Regular)

\* Variant: the start date is preferred to the end date.
EventDate_start_first(event) ==
    PyOr(Get(event, "startDate", PyNone), Get(event, "endDate", Empty))

\* Line 118
EventDate(event) ==
    PyOr(Get(event, "endDate", PyNone), Get(event, "startDate", Empty))

BeforeCell(before) == IF before # PyNone THEN before ELSE NA

\* Variant: a missing after-rating gets the before-rating's default.
AfterCell_not_available(after) == IF after # PyNone THEN after ELSE NA

AfterCell(after) == IF after # PyNone THEN after ELSE Pending

\* Lines 116-128: the exception the rest of the loop body raises, "" when none.
\* event.get on a non-dict is an AttributeError; slicing None is a TypeError.
RowError(section) ==
    LET event == Get(section, "event", PyDict(EmptyDict)) IN
    IF event.t # "dict" THEN "AttributeError"
    ELSE IF Get(event, "name", NA).t # "str" THEN "TypeError"
    ELSE IF Get(section, "sectionName", NA).t # "str" THEN "TypeError"
    ELSE ""

\* Lines 120-128: the row, for a section on which RowError is "".
Row(section) ==
    LET event == Get(section, "event", PyDict(EmptyDict))
        event_name == Get(event, "name", NA)
        before == RatingBefore(section)
        after == RatingAfter(section)
    IN << format_date(EventDate(event)),
          Slice(event_name, EVENT_NAME_WIDTH),
          Slice(Get(section, "sectionName", NA), SECTION_NAME_WIDTH),
          RatingType(section),
          BeforeCell(before),
          AfterCell(after),
          calculate_rating_change(before, after) >>

----------------------------------------------------------------------------
(* The answers the remote end can give. *)

\* The dicts holding key k with a value of Vals, or not holding it.
Opt(k, Vals) == {EmptyDict} \cup {k :> v : v \in Vals}

Ratings == {0, 999, 1000, 1500, 1520}

RatingVals == {PyNone} \cup {PyInt(r) : r \in Ratings}

RecordSet ==
    {PyDict(a @@ b) : a \in Opt("preRating", RatingVals),
                      b \in Opt("postRating", RatingVals)}

FullRecord == PyDict(("preRating" :> PyInt(1500)) @@ ("postRating" :> PyInt(1520)))

\* An older record of the same section; only the first record is read.
LaterRecord == PyDict(("preRating" :> PyInt(1400)) @@ ("postRating" :> PyInt(1450)))

RecordLists ==
    {PyList(<<>>)} \cup
    {PyList(<<r>> \o [k \in 1..n |-> LaterRecord]) :
        r \in RecordSet, n \in 0..(MaxRecords - 1)}

Alphabet == <<"a", "b", "c", "d", "e", "f", "g", "h", "i", "j", "k", "l", "m">>

\* A name of n characters in which neighbouring characters differ.
NameOfLen(n) == PyStr([k \in 1..n |-> Alphabet[((k - 1) % Len(Alphabet)) + 1]])

SectionNames ==
    {PyNone} \cup {NameOfLen(n) : n \in {0, SECTION_NAME_WIDTH - 1,
                                         SECTION_NAME_WIDTH, SECTION_NAME_WIDTH + 1}}

EventNames ==
    {PyNone} \cup {NameOfLen(n) : n \in {EVENT_NAME_WIDTH - 1, EVENT_NAME_WIDTH,
                                         EVENT_NAME_WIDTH + 1, MaxNameLen}}

DateTimeZ == PyStr(<<"2", "0", "2", "4", "-", "0", "3", "-", "1", "0", "T",
                     "0", "0", ":", "0", "0", ":", "0", "0", "Z">>)
DateOnly == PyStr(<<"2", "0", "2", "3", "-", "1", "2", "-", "3", "1">>)
LeapDay == PyStr(<<"2", "0", "2", "4", "-", "0", "2", "-", "2", "9", "T",
                   "1", "8", ":", "3", "0">>)
NoSuchDay == PyStr(<<"2", "0", "2", "3", "-", "0", "2", "-", "2", "9">>)
BadHour == PyStr(<<"2", "0", "2", "4", "-", "0", "3", "-", "1", "0", "T",
                   "2", "5", ":", "0", "0", ":", "0", "0", "Z">>)
SlashDate == PyStr(<<"0", "3", "/", "1", "0", "/", "2", "0", "2", "4">>)
Tbz == PyStr(<<"T", "B", "Z">>)

WellFormedDates == {DateTimeZ, DateOnly, LeapDay}
MalformedDates == {NoSuchDay, BadHour, SlashDate, Tbz}

EndDates == {PyNone, Empty} \cup WellFormedDates \cup MalformedDates
StartDates == {PyNone, Empty, DateOnly, SlashDate}

Events ==
    {PyNone} \cup
    {PyDict(n @@ e @@ b) : n \in Opt("name", EventNames),
                           e \in Opt("endDate", EndDates),
                           b \in Opt("startDate", StartDates)}

SpringOpen ==
    PyDict(("name" :> NameOfLen(EVENT_NAME_WIDTH - 1)) @@ ("endDate" :> DateTimeZ))

Quick == PyStr(<<"Q">>)

\* Sections that vary in their ratings.
RatingSections ==
    {PyDict(r @@ t @@ ("sectionName" :> NameOfLen(4)) @@ ("event" :> SpringOpen)) :
        r \in Opt("ratingRecords", {PyNone} \cup RecordLists),
        t \in Opt("ratingSystem", {PyNone, Quick})}

\* Sections that vary in their names and dates.
DisplaySections ==
    {PyDict(r @@ t @@ n @@ e) :
        r \in Opt("ratingRecords", {PyList(<<FullRecord>>)}),
        t \in Opt("ratingSystem", {Quick}),
        n \in Opt("sectionName", SectionNames),
        e \in Opt("event", Events)}

Sections == RatingSections \cup DisplaySections

\* Sections of the longer lists.
CoreSections ==
    { PyDict(("ratingRecords" :> PyList(<<FullRecord>>)) @@ ("ratingSystem" :> Regular)
             @@ ("sectionName" :> NameOfLen(4)) @@ ("event" :> SpringOpen)),
      PyDict(("ratingRecords" :> PyList(<<>>)) @@ ("event" :> SpringOpen)),
      PyDict(("ratingRecords" :> PyList(<<
                 PyDict(("preRating" :> PyInt(1520)) @@ ("postRating" :> PyInt(0)))>>))
             @@ ("sectionName" :> NameOfLen(SECTION_NAME_WIDTH + 1))),
      PyDict(("ratingRecords" :> PyList(<<PyDict("preRating" :> PyInt(1520))>>))
             @@ ("ratingSystem" :> Quick)
             @@ ("event" :> PyDict("name" :> NameOfLen(MaxNameLen)))),
      PyDict(("ratingRecords" :> PyList(<<LaterRecord>>)) @@ ("event" :> PyNone)),
      PyDict(("ratingRecords" :> PyList(<<LaterRecord>>)) @@ ("sectionName" :> PyNone)),
      PyDict(EmptyDict) }

RECURSIVE ListsOfLen(_, _)
ListsOfLen(S, n) ==
    IF n = 0 THEN {<<>>}
    ELSE {<<x>> \o l : x \in S, l \in ListsOfLen(S, n - 1)}

ItemLists ==
    {PyList(<<x>>) : x \in Sections} \cup
    {PyList(l) : l \in UNION {ListsOfLen(CoreSections, n) : n \in 2..MaxSections}}

\* Another key of the decoded object.
Extra == {EmptyDict, "total" :> PyInt(0)}

Documents ==
    {PyDict(i @@ x) : i \in Opt("items", {PyNone, PyList(<<>>)}), x \in Extra}
    \cup {PyDict("items" :> l) : l \in ItemLists}

Responses ==
    {[kind |-> "ConnectionError", status |-> 0, body |-> PyNone],
     [kind |-> "Timeout", status |-> 0, body |-> PyNone],
     [kind |-> "HTTPError", status |-> 404, body |-> PyNone],
     [kind |-> "HTTPError", status |-> 500, body |-> PyNone],
     [kind |-> "NotJson", status |-> 200, body |-> PyNone]}
    \cup {[kind |-> "ok", status |-> 200, body |-> d] : d \in Documents}

----------------------------------------------------------------------------
(* The run. *)

Line(msg) == [msg |-> msg, val |-> PyNone]

MsgStart == "Fetching data for member"
MsgFetchError == "Error fetching data"
MsgFailed == "Failed to fetch data. Please check your internet connection and member ID."
MsgNoData == "No data available"
MsgNoSections == "No tournament sections found"
MsgBanner == "US CHESS RATING TRACKER"
MsgSummary == "Current Rating / Total Sections"
MsgTable == "TOURNAMENT SECTIONS (Most Recent First)"

Init ==
    /\ pc = "main"
    /\ response = [kind |-> "none", status |-> 0, body |-> PyNone]
    /\ data = PyNone
    /\ nreq = 0
    /\ out = <<>>
    /\ exc = ""
    /\ sections = PyNone
    /\ idx = 0
    /\ table_data = <<>>
    /\ current_rating = PyNone
    /\ rating_before = PyNone
    /\ rating_after = PyNone
    /\ change = PyNone

\* Lines 157-161
MainStart ==
    /\ pc = "main"
    /\ out' = Append(out, Line(MsgStart))
    /\ pc' = "fetch"
    /\ UNCHANGED <<response, data, nreq, exc, sections, idx, table_data,
                   current_rating, rating_before, rating_after, change>>

\* Variant: no except clause, a failed request propagates.
FetchOutcomes_uncaught(r) ==
    CASE r.kind \in {"ConnectionError", "Timeout", "HTTPError", "NotJson"} ->
            {[data |-> PyNone, log |-> <<>>, exc |-> r.kind]}
      [] r.kind = "ok" -> {[data |-> r.body, log |-> <<>>, exc |-> ""]}

\* Lines 22-28: what fetch_member_sections does with the answer r.  A transport
\* failure and a non-2xx status are RequestExceptions.  A 2xx body that is not
\* JSON makes response.json() raise an error that is a RequestException in
\* requests >= 2.27 and a plain ValueError before, which the except clause
\* does not catch: both outcomes are possible.
FetchOutcomes(r) ==
    LET failed == [data |-> PyNone, log |-> <<Line(MsgFetchError)>>, exc |-> ""] IN
    CASE r.kind \in {"ConnectionError", "Timeout", "HTTPError"} -> {failed}
      [] r.kind = "NotJson" ->
            {failed, [data |-> PyNone, log |-> <<>>, exc |-> "ValueError"]}
      [] r.kind = "ok" -> {[data |-> r.body, log |-> <<>>, exc |-> ""]}

\* Line 164
Fetch ==
    /\ pc = "fetch"
    /\ \E r \in Responses : \E o \in FetchOutcomes(r) :
        /\ response' = r
        /\ nreq' = nreq + 1
        /\ out' = out \o o.log
        /\ exc' = o.exc
        /\ data' = o.data
        /\ pc' = IF o.exc = "" THEN "fetched" ELSE "raised"
    /\ UNCHANGED <<sections, idx, table_data, current_rating, rating_before,
                   rating_after, change>>

\* Line 166: if data
MainTakesData(d) == Truthy(d)

\* Lines 168-169
MainFailed ==
    /\ pc = "fetched"
    /\ ~MainTakesData(data)
    /\ out' = Append(out, Line(MsgFailed))
    /\ pc' = "done"
    /\ UNCHANGED <<response, data, nreq, exc, sections, idx, table_data,
                   current_rating, rating_before, rating_after, change>>

\* Lines 58-60
DisplayNoData ==
    /\ pc = "fetched"
    /\ MainTakesData(data)
    /\ (~Truthy(data) \/ "items" \notin DOMAIN data.d)
    /\ out' = Append(out, Line(MsgNoData))
    /\ pc' = "done"
    /\ UNCHANGED <<response, data, nreq, exc, sections, idx, table_data,
                   current_rating, rating_before, rating_after, change>>

\* Lines 62-66
DisplayNoSections ==
    /\ pc = "fetched"
    /\ MainTakesData(data)
    /\ ~(~Truthy(data) \/ "items" \notin DOMAIN data.d)
    /\ ~Truthy(data.d["items"])
    /\ sections' = data.d["items"]
    /\ out' = Append(out, Line(MsgNoSections))
    /\ pc' = "done"
    /\ UNCHANGED <<response, data, nreq, exc, idx, table_data,
                   current_rating, rating_before, rating_after, change>>

\* Lines 87-88
SummaryLine(rating, items) ==
    [msg |-> MsgSummary,
     val |-> [current_rating |-> rating, total_sections |-> Len(items.l)]]

\* Lines 62-100
DisplaySummary ==
    /\ pc = "fetched"
    /\ MainTakesData(data)
    /\ ~(~Truthy(data) \/ "items" \notin DOMAIN data.d)
    /\ Truthy(data.d["items"])
    /\ sections' = data.d["items"]
    /\ current_rating' = CurrentRating(data.d["items"])
    /\ out' = out \o <<Line(MsgBanner),
                       SummaryLine(CurrentRating(data.d["items"]), data.d["items"])>>
    /\ table_data' = <<>>
    /\ idx' = 1
    /\ pc' = "loop"
    /\ UNCHANGED <<response, data, nreq, exc, rating_before, rating_after, change>>

\* Lines 102-129: one iteration of the for loop.
LoopBody ==
    /\ pc = "loop"
    /\ idx <= Len(sections.l)
    /\ LET section == sections.l[idx] IN
        /\ rating_before' = RatingBefore(section)
        /\ rating_after' = RatingAfter(section)
        /\ change' = calculate_rating_change(RatingBefore(section), RatingAfter(section))
        /\ IF RowError(section) = ""
           THEN /\ table_data' = Append(table_data, Row(section))
                /\ idx' = idx + 1
                /\ UNCHANGED <<pc, exc>>
           ELSE /\ exc' = RowError(section)
                /\ pc' = "raised"
                /\ UNCHANGED <<table_data, idx>>
    /\ UNCHANGED <<response, data, nreq, out, sections, current_rating>>

\* Lines 131-136
DisplayTable ==
    /\ pc = "loop"
    /\ idx > Len(sections.l)
    /\ out' = Append(out, [msg |-> MsgTable,
                           val |-> [headers |-> Headers, rows |-> table_data]])
    /\ pc' = "done"
    /\ UNCHANGED <<response, data, nreq, exc, sections, idx, table_data,
                   current_rating, rating_before, rating_after, change>>

Next ==
    \/ MainStart
    \/ Fetch
    \/ MainFailed
    \/ DisplayNoData
    \/ DisplayNoSections
    \/ DisplaySummary
    \/ LoopBody
    \/ DisplayTable

Spec == Init /\ [][Next]_vars

----------------------------------------------------------------------------
(* Vocabulary of the properties: the raw document and the printed output.  *)

Printed(m) == \E k \in 1..Len(out) : out[k].msg = m

\* Key k of dict d holds a value other than null.
Present(d, k) == k \in DOMAIN d.d /\ d.d[k] # PyNone

FetchSucceeded == response.kind = "ok"

FetchFailed == response.kind \in {"ConnectionError", "Timeout", "HTTPError"}

\* The decoded document has no items key, or an empty items array.
EmptyResult ==
    /\ FetchSucceeded
    /\ ("items" \in DOMAIN response.body.d => response.body.d["items"] = PyList(<<>>))

\* The decoded document has at least one section.
HasSections ==
    /\ FetchSucceeded
    /\ "items" \in DOMAIN response.body.d
    /\ response.body.d["items"].t = "list"
    /\ response.body.d["items"].l # <<>>

Items == response.body.d["items"].l

\* The first rating record of a section, the empty dict when it has none.
FirstRecord(section) ==
    IF Present(section, "ratingRecords") /\ section.d["ratingRecords"].l # <<>>
    THEN section.d["ratingRecords"].l[1]
    ELSE PyDict(EmptyDict)

\* The event of a section whose row was built, the empty dict when omitted.
EventOf(section) ==
    IF "event" \in DOMAIN section.d THEN section.d["event"] ELSE PyDict(EmptyDict)

\* The integer a sign-prefixed decimal string denotes.
SignedValue(s) ==
    IF Head(s) = "+" THEN DigitsToNat(Tail(s))
    ELSE IF Head(s) = "-" THEN 0 - DigitsToNat(Tail(s))
    ELSE DigitsToNat(s)

\* calculate_rating_change has been called, on rating_before and rating_after.
DeltaComputed == change # PyNone

BothRatings == rating_before # PyNone /\ rating_after # PyNone

\* s has the shape YYYY-MM-DD.
IsYmd(s) ==
    /\ Len(s) = 10
    /\ s[5] = "-" /\ s[8] = "-"
    /\ \A k \in {1, 2, 3, 4, 6, 7, 9, 10} : IsDigit(s[k])

\* s is the first min(n, Len(t)) characters of t.
IsPrefixOfWidth(s, t, n) ==
    /\ Len(s) = (IF Len(t) > n THEN n ELSE Len(t))
    /\ \A k \in 1..Len(s) : s[k] = t[k]

----------------------------------------------------------------------------
(* C1: calculate_rating_change returns "Pending" iff one of the two        *)
(* ratings is absent; with both present it returns the decimal string of   *)
(* after - before, prefixed "+" when positive, carrying its "-" when       *)
(* negative, and the literal "0" when zero (1500, 1520 gives "+20").       *)
C1_DeltaFormat ==
    DeltaComputed =>
        /\ (change = Pending) <=> ~BothRatings
        /\ BothRatings =>
            LET diff == rating_after.i - rating_before.i IN
            /\ diff > 0 => /\ Head(change.s) = "+"
                           /\ AllDigits(Tail(change.s))
                           /\ change.s[2] # "0"
                           /\ DigitsToNat(Tail(change.s)) = diff
            /\ diff < 0 => /\ Head(change.s) = "-"
                           /\ AllDigits(Tail(change.s))
                           /\ change.s[2] # "0"
                           /\ DigitsToNat(Tail(change.s)) = 0 - diff
            /\ diff = 0 => change.s = <<"0">>
            /\ (rating_before.i = 1500 /\ rating_after.i = 1520)
                    => change.s = <<"+", "2", "0">>

C1_Witness ==
    /\ rating_before = PyInt(1500) /\ rating_after = PyInt(1520)
    /\ change = PyStr(<<"+", "2", "0">>)

(* C2 as written: with both ratings present the delta denotes before -     *)
(* after, and the delta of equal ratings is "0".                           *)
C2_BeforeMinusAfter ==
    (DeltaComputed /\ BothRatings) =>
        /\ SignedValue(change.s) = rating_before.i - rating_after.i
        /\ rating_before = rating_after => change.s = <<"0">>

(* C2 amended: with both ratings present the delta denotes after - before  *)
(* (the gain is positive), and the delta of equal ratings is "0".          *)
C2_AfterMinusBefore ==
    (DeltaComputed /\ BothRatings) =>
        /\ SignedValue(change.s) = rating_after.i - rating_before.i
        /\ rating_before = rating_after => change.s = <<"0">>

C2_Witness ==
    /\ rating_before = PyInt(1520) /\ rating_after = PyInt(1500)
    /\ change = PyStr(<<"-", "2", "0">>)

(* C3: when the fetch succeeds and the document has no items key or an     *)
(* empty items array, the finished run has printed a no-data message and   *)
(* neither the fetch-failure message nor a summary nor a table.            *)
C3_EmptyResultIsNotAnError ==
    (EmptyResult /\ pc = "done") =>
        /\ Printed(MsgNoData) \/ Printed(MsgNoSections)
        /\ ~Printed(MsgFailed)
        /\ ~Printed(MsgSummary)
        /\ ~Printed(MsgTable)

(* C4: when the GET fails in transport or with a non-2xx status, the fetch *)
(* logs a message and returns None without raising; main prints the        *)
(* failure message, never enters display_sections, issues no second        *)
(* request and completes normally.                                         *)
C4_FetchFailure ==
    FetchFailed =>
        /\ data = PyNone
        /\ exc = ""
        /\ Printed(MsgFetchError)
        /\ nreq = 1
        /\ pc \in {"fetched", "done"}
        /\ pc = "fetched" => ENABLED MainFailed
        /\ pc = "done" => Printed(MsgFailed)
        /\ sections = PyNone /\ table_data = <<>>
        /\ \A m \in {MsgNoData, MsgNoSections, MsgBanner, MsgSummary, MsgTable} :
                ~Printed(m)

C4_Witness ==
    /\ response.kind = "ConnectionError"
    /\ pc = "done"
    /\ out[Len(out)].msg = MsgFailed

(* C5: for every fetched document, whichever optional fields of a section  *)
(* are omitted or null, nothing is raised out of the pipeline.             *)
C5_NeverRaises ==
    FetchSucceeded => (exc = "" /\ pc # "raised")

(* C6: the printed Current Rating is the first section's first record's    *)
(* postRating whenever present (0 included), else its preRating whenever   *)
(* present, and "N/A" exactly when there is no first record or it has      *)
(* neither value.                                                          *)
C6_CurrentRating ==
    (HasSections /\ Printed(MsgSummary)) =>
        LET first == FirstRecord(Items[1]) IN
        /\ Present(first, "postRating") => current_rating = first.d["postRating"]
        /\ (~Present(first, "postRating") /\ Present(first, "preRating"))
                => current_rating = first.d["preRating"]
        /\ (current_rating = NA)
                <=> (~Present(first, "postRating") /\ ~Present(first, "preRating"))
        /\ \E k \in 1..Len(out) :
                out[k].msg = MsgSummary /\ out[k].val.current_rating = current_rating

\* The date the row of a section is said to show: endDate if present, else
\* startDate if present, else the empty string.
ClaimedDate(section) ==
    LET event == EventOf(section) IN
    IF Present(event, "endDate") THEN event.d["endDate"]
    ELSE IF Present(event, "startDate") THEN event.d["startDate"]
    ELSE Empty

\* The date the row of a section shows: endDate if present and not empty,
\* else startDate if present, else the empty string.
ShownDate(section) ==
    LET event == EventOf(section) IN
    IF Present(event, "endDate") /\ event.d["endDate"] # Empty THEN event.d["endDate"]
    ELSE IF Present(event, "startDate") THEN event.d["startDate"]
    ELSE Empty

(* C7 as written: the Date cell is format_date of the claimed date, where  *)
(* format_date maps a well-formed input to YYYY-MM-DD and every other      *)
(* input, the empty string included, to itself.                            *)
C7_DateCellEmptyUnchanged ==
    \A k \in 1..Len(table_data) :
        LET raw == ClaimedDate(sections.l[k])
            cell == table_data[k][1]
        IN IF raw \in WellFormedDates
           THEN IsYmd(cell.s) /\ cell.s = SubSeq(raw.s, 1, 10)
           ELSE cell = raw

(* C7 amended: the Date cell is format_date of the endDate if present and  *)
(* not empty, else of the startDate, else of the empty string; format_date *)
(* maps a well-formed input to YYYY-MM-DD, an empty input to "N/A", and    *)
(* every other input to itself.                                            *)
C7_DateCell ==
    \A k \in 1..Len(table_data) :
        LET raw == ShownDate(sections.l[k])
            cell == table_data[k][1]
        IN /\ raw \in {Empty} \cup WellFormedDates \cup MalformedDates
           /\ raw = Empty => cell = NA
           /\ raw \in WellFormedDates =>
                (IsYmd(cell.s) /\ cell.s = SubSeq(raw.s, 1, 10))
           /\ raw \in MalformedDates => cell = raw

C7_Witness ==
    \E k \in 1..Len(table_data) :
        LET event == EventOf(sections.l[k]) IN
        /\ "endDate" \in DOMAIN event.d /\ event.d["endDate"] = Empty
        /\ "startDate" \in DOMAIN event.d /\ event.d["startDate"] = DateOnly
        /\ table_data[k][1] = DateOnly

(* C8: the Tournament cell is the first 30 characters of the event name    *)
(* and the Section cell the first 20 of the section name: a longer name is *)
(* cut to exactly that length, a shorter one is unchanged.                 *)
C8_Truncation ==
    \A k \in 1..Len(table_data) :
        LET section == sections.l[k]
            event == EventOf(section)
        IN /\ Present(event, "name") =>
                IsPrefixOfWidth(table_data[k][2].s, event.d["name"].s, 30)
           /\ Present(section, "sectionName") =>
                IsPrefixOfWidth(table_data[k][3].s, section.d["sectionName"].s, 20)

C8_Witness ==
    \E k \in 1..Len(table_data) :
        LET section == sections.l[k] IN
        /\ Present(section, "sectionName") /\ Present(section, "event")
        /\ Present(section.d["event"], "name")
        /\ Len(section.d["event"].d["name"].s) = 31 /\ Len(table_data[k][2].s) = 30
        /\ Len(section.d["sectionName"].s) = 21 /\ Len(table_data[k][3].s) = 20

C10_TableFollowsSummary ==
    (pc \in {"done", "raised"} /\ Printed(MsgSummary)) =>
        /\ pc = "done"
        /\ out[Len(out)].msg = MsgTable
        /\ out[Len(out) - 1].msg = MsgSummary
        /\ LET table == out[Len(out)].val
               summary == out[Len(out) - 1].val
           IN /\ table.headers = <<"Date", "Tournament", "Section", "Type",
                                   "Before", "After", "Change">>
              /\ Len(table.rows) = Len(Items)
              /\ Len(table.rows) = summary.total_sections
              /\ \A k \in 1..Len(table.rows) :
                    /\ Len(table.rows[k]) = 7
                    /\ table.rows[k] = Row(Items[k])

====
